---- MODULE Spec2Model ----
(***************************************************************************)
(* Dead-reckoning mapping engine of WindowWise: the MappingProcessor      *)
(* (position integrator, loop closure, Douglas-Peucker simplifier), the    *)
(* sensor hook state it is fed from, the MappingScreen handlers that drive *)
(* it and the ADD_WALL / START / PAUSE / STOP cases of the app reducer.    *)
(*                                                                         *)
(* Numbers.  Lengths are integers in units of 0.05 m, so that the three    *)
(* lengths of the source are integers: stepLength 0.75 m = 15, the         *)
(* simplifier tolerance 0.1 m = 2, the loop-closure radius 0.5 m = 10.     *)
(* Angles are integer degrees.  Magnetometer samples are taken on the      *)
(* eight compass rays (and the zero vector), where atan2 is a whole number *)
(* of degrees; displacements along the diagonals are rounded to the        *)
(* nearest unit.                                                           *)
(***************************************************************************)
EXTENDS Integers, Sequences, FiniteSets, TLC

\* ------------------------------------------------------------------------
\* Bounds of the exploration
\* ------------------------------------------------------------------------
MaxSteps == 2        \* largest step count the step detector reaches
MaxProcSteps == 3    \* largest step count handed to the processor driver
MaxLoopSteps == 11   \* largest step count in the loop-closure driver
SideSteps == 10      \* steps per side of the square walk
MaxStarts == 2        \* calls of start() in the adapter driver

\* ------------------------------------------------------------------------
\* Program constants
\* ------------------------------------------------------------------------
StepLength == 15          \* ENV.STEP_LENGTH = 0.75 m
Tolerance == 2            \* simplifyPoints: tolerance = 0.1 m
LoopThreshold == 10       \* checkLoopClosure: distance < 0.5 m
MinLoopPoints == 10       \* checkLoopClosure: points.length < 10
MinSimplifyPoints == 3   \* simplifyPoints returns shorter tracks as they are
MinClosePoints == 3       \* closeLoop / simplifyPoints: points.length < 3
SimplifyThreshold == 100  \* addPointFromHeadingAndDistance: length > 100
AutoStopPoints == 10      \* effect: pointsRef.current.length > 10
MinWallPoints == 2        \* handleStopMapping: pointsRef.current.length > 2
MinReadings == 5          \* handleCalibrate: readings.length >= 5
MaxReadings == 10         \* handleCalibrate: keep only the last 10 readings

VARIABLES
  \* MappingProcessor fields
  points, heading, calibrationOffset, stepCount, totalDistance,
  \* the last call made on the processor and what it returned
  ret,
  \* app reducer state
  mappingState, hasFloor, walls,
  \* useSensors hook state
  sensorsAvailable, magnetometer, hookSteps, listeners,
  devAvail, pc, result, recv, dataTimer, initTimer, initTimeoutRef, registry,
  subsRef, isTracking, stoppedCalls,
  \* retry handling of initializeSensors
  retryVariant, retryAttempts, captured, retryTimer, errorAlert, retries,
  attempts, surfaced,
  \* step detector (detectStep) and the sample stream it was given
  accelerationWindow, sinceStep, recent, sinceQual, qualCount, spaced,
  samples, sinceEmit, stepGap, constantStream,
  \* the magnetometer sample that was current when the latest step was detected
  stepMag,
  \* how many steps were detected in each mapping state
  detectedIn,
  \* the AppState of react-native: "active" or "background"
  appState,
  \* the setInterval timers of calibration sessions that are scheduled, as
  \* <<kind, owner>>: owner "current" for the latest session, "ended" for a
  \* session before it
  intervals,
  \* the calibrationCountdown state of the screen
  calibrationCountdown,
  \* MappingScreen state
  pointsRef, lastStop, alert, screenVersion,
  \* calibration session
  isCalibrating, calTimer, readings, calMag, calResult

procVars == <<points, heading, calibrationOffset, stepCount, totalDistance>>
appVars == <<mappingState, hasFloor, walls>>
startVars == <<devAvail, pc, result, recv, dataTimer, initTimer, initTimeoutRef,
               registry, subsRef, isTracking, stoppedCalls>>
retryVars == <<retryVariant, retryAttempts, captured, retryTimer, errorAlert,
               retries, attempts, surfaced>>
detVars == <<accelerationWindow, sinceStep, recent, sinceQual, qualCount,
             spaced, samples, sinceEmit, stepGap, constantStream>>
sessionAux == <<retryVars, detVars, stepMag, detectedIn, appState>>
timerVars == <<intervals, calibrationCountdown>>
auxVars == <<sessionAux, timerVars>>
hookState == <<sensorsAvailable, magnetometer, hookSteps, listeners, startVars>>
hookVars == <<hookState, auxVars>>
screenVars == <<pointsRef, lastStop, alert, screenVersion>>
calVars == <<isCalibrating, calTimer, readings, calMag, calResult>>
vars == <<procVars, ret, appVars, hookVars, screenVars, calVars>>

\* ------------------------------------------------------------------------
\* Values
\* ------------------------------------------------------------------------
Pt(px, py) == [x |-> px, y |-> py]
Origin == Pt(0, 0)
Vec(vx, vy) == [x |-> vx, y |-> vy]

NoMag == [none |-> TRUE]  \* sensorData.magnetometer is undefined
NoSteps == -1            \* sensorData.pedometer is undefined
NaN == 1000000           \* the number NaN (no other number of the model is this large)
IsNaN(n) == n = NaN
\* a + b of two numbers
Plus(a, b) == IF IsNaN(a) \/ IsNaN(b) THEN NaN ELSE a + b

\* the eight compass rays and the zero vector the hook starts with
CompassRays ==
  { Vec(1, 0), Vec(1, 1), Vec(0, 1), Vec(-1, 1),
    Vec(-1, 0), Vec(-1, -1), Vec(0, -1), Vec(1, -1) }
ZeroVec == Vec(0, 0)
\* a magnetometer sample whose x axis is NaN
NaNVec == Vec(NaN, 0)

Abs(n) == IF n < 0 THEN -n ELSE n

\* JavaScript's %: the result has the sign of the dividend
JsMod(a, m) == IF a >= 0 THEN a % m ELSE -((-a) % m)

\* floor of the square root, by bisection on lo..hi
RECURSIVE IsqrtIn(_, _, _)
IsqrtIn(n, lo, hi) ==
  IF lo >= hi THEN lo
  ELSE LET mid == (lo + hi + 1) \div 2
       IN IF mid * mid <= n THEN IsqrtIn(n, mid, hi) ELSE IsqrtIn(n, lo, mid - 1)
Isqrt(n) == IsqrtIn(n, 0, 46340)

\* Math.atan2(y, x) in degrees, on the compass rays: a value in (-180, 180]
Atan2Deg(vy, vx) ==
  CASE vy = 0 /\ vx >= 0 -> 0
    [] vy = 0 /\ vx < 0 -> 180
    [] vx = 0 /\ vy > 0 -> 90
    [] vx = 0 /\ vy < 0 -> -90
    [] vx > 0 /\ vy = vx -> 45
    [] vx < 0 /\ vy = -vx -> 135
    [] vx < 0 /\ vy = vx -> -135
    [] vx > 0 /\ vy = -vx -> -45

\* distance * sin(45 degrees), rounded to the nearest unit
Diag(d) == (d * 7071 + 5000) \div 10000

\* distance * Math.sin(heading in radians)
SinTimes(h, d) ==
  CASE IsNaN(h) -> NaN
    [] h = 0 -> 0
    [] h = 45 -> Diag(d)
    [] h = 90 -> d
    [] h = 135 -> Diag(d)
    [] h = 180 -> 0
    [] h = 225 -> -Diag(d)
    [] h = 270 -> -d
    [] h = 315 -> -Diag(d)

\* distance * Math.cos(heading in radians)
CosTimes(h, d) == IF IsNaN(h) THEN NaN ELSE SinTimes((h + 90) % 360, d)

\* squared Euclidean distance of two points
Dist2(p, q) == (q.x - p.x) * (q.x - p.x) + (q.y - p.y) * (q.y - p.y)


\* ------------------------------------------------------------------------
\* MappingProcessor: pure parts
\* ------------------------------------------------------------------------

\* the raw heading of handleCalibrate's collectReadings:
\* atan2(y, x) in degrees, then (heading + 360) % 360
NormalizedHeading(mag) ==
  IF IsNaN(mag.x) \/ IsNaN(mag.y) THEN NaN
  ELSE JsMod(Atan2Deg(mag.y, mag.x) + 360, 360)

\* updateHeading: the heading stored for a magnetometer sample
updateHeading(mag, offset) ==
  IF IsNaN(mag.x) \/ IsNaN(mag.y) \/ IsNaN(offset) THEN NaN
  ELSE LET d0 == Atan2Deg(mag.y, mag.x) + 90
           d1 == IF d0 < 0 THEN d0 + 360 ELSE d0
           degrees == JsMod(d1, 360)
       IN JsMod(degrees + offset, 360)

\* calibrate without the final modulo
calibrate_NoModulo(currentHeading) == 360 - currentHeading

\* calibrate: the offset stored for a reference heading
calibrate(currentHeading) ==
  IF IsNaN(currentHeading) THEN NaN ELSE JsMod(360 - currentHeading, 360)

\* the comparison key of a point against the chord pts[s]..pts[e]:
\* the squared distance to the start point when the chord has zero length,
\* the absolute cross product (distance times chord length) otherwise
ChordKey(pts, s, e, i) ==
  IF Dist2(pts[s], pts[e]) = 0
  THEN Dist2(pts[s], pts[i])
  ELSE Abs((pts[i].x - pts[s].x) * (pts[e].y - pts[s].y)
           - (pts[i].y - pts[s].y) * (pts[e].x - pts[s].x))

\* maxIndex of douglasPeuckerSimplify: the first interior index that reaches
\* the largest distance; 0 when no interior point has a positive distance
MaxIndex(pts, s, e) ==
  LET I == (s + 1)..(e - 1)
      best == CHOOSE k \in I : \A j \in I : ChordKey(pts, s, e, j) <= ChordKey(pts, s, e, k)
      top == ChordKey(pts, s, e, best)
  IN IF top = 0 THEN 0
     ELSE CHOOSE k \in I : /\ ChordKey(pts, s, e, k) = top
                           /\ \A j \in I : ChordKey(pts, s, e, j) = top => k <= j

OverTolerance_Zero(pts, s, e, i) == ChordKey(pts, s, e, i) > 0

\* maxDistance > tolerance, for the point at index i
OverTolerance(pts, s, e, i) ==
  IF Dist2(pts[s], pts[e]) = 0
  THEN ChordKey(pts, s, e, i) > Tolerance * Tolerance
  ELSE ChordKey(pts, s, e, i) > Isqrt(Tolerance * Tolerance * Dist2(pts[s], pts[e]))

\* douglasPeuckerSimplify: the points pushed on `simplified', in push order
RECURSIVE douglasPeuckerSimplify(_, _, _)
douglasPeuckerSimplify(pts, s, e) ==
  IF e <= s + 1 THEN <<>>
  ELSE LET mi == MaxIndex(pts, s, e)
       IN IF mi # 0 /\ OverTolerance(pts, s, e, mi)
          THEN douglasPeuckerSimplify(pts, s, mi) \o <<pts[mi]>>
               \o douglasPeuckerSimplify(pts, mi, e)
          ELSE <<>>

\* this.points.findIndex(p => p.x === a.x && p.y === a.y), 1-based
FindIndex(pts, a) == CHOOSE i \in 1..Len(pts) :
  /\ pts[i] = a
  /\ \A j \in 1..(i - 1) : pts[j] # a

\* [...simplified].sort((a, b) => indexA - indexB): elements in increasing
\* order of the index findIndex gives them (equal keys are equal points)
RECURSIVE SortByFindIndex(_, _, _)
SortByFindIndex(simplified, pts, k) ==
  IF k > Len(pts) THEN <<>>
  ELSE SelectSeq(simplified, LAMBDA a : FindIndex(pts, a) = k)
       \o SortByFindIndex(simplified, pts, k + 1)

\* simplifyPoints: the new value of this.points (also the value returned)
simplifyPoints(pts) ==
  IF Len(pts) < MinSimplifyPoints THEN pts
  ELSE SortByFindIndex(<<pts[1]>> \o douglasPeuckerSimplify(pts, 1, Len(pts))
                         \o <<pts[Len(pts)]>>, pts, 1)

\* addPointFromHeadingAndDistance: the new value of this.points
addPointFromHeadingAndDistance(pts, h, distance) ==
  IF Len(pts) = 0 THEN <<Origin>>
  ELSE LET lastPoint == pts[Len(pts)]
           pushed == Append(pts, Pt(Plus(lastPoint.x, SinTimes(h, distance)),
                                    Plus(lastPoint.y, CosTimes(h, distance))))
       IN IF Len(pushed) > SimplifyThreshold THEN simplifyPoints(pushed) ELSE pushed

\* checkLoopClosure with the minimum track length of closeLoop
checkLoopClosure_ShortTrack(pts) ==
  IF Len(pts) < MinClosePoints THEN FALSE
  ELSE Dist2(pts[1], pts[Len(pts)]) < LoopThreshold * LoopThreshold

\* checkLoopClosure: the value returned
checkLoopClosure(pts) ==
  IF Len(pts) < MinLoopPoints THEN FALSE
  ELSE Dist2(pts[1], pts[Len(pts)]) < LoopThreshold * LoopThreshold

\* closeLoop: the new value of this.points (also the value returned)
closeLoop(pts) ==
  IF Len(pts) < MinClosePoints THEN pts
  ELSE simplifyPoints(Append(pts, pts[1]))

\* the input closeLoop hands to simplifyPoints
closeLoopInput(pts) ==
  IF Len(pts) < MinClosePoints THEN pts ELSE Append(pts, pts[1])

\* ------------------------------------------------------------------------
\* MappingProcessor: operations on the processor state
\* ------------------------------------------------------------------------
Ret(op, pre, inp, mag, out) ==
  [op |-> op, pre |-> pre, inp |-> inp, mag |-> mag, out |-> out]

reset_KeepsCounters ==
  /\ points' = <<Origin>>
  /\ heading' = 0
  /\ calibrationOffset' = 0
  /\ UNCHANGED <<stepCount, totalDistance>>

\* reset()
reset ==
  /\ points' = <<Origin>>
  /\ heading' = 0
  /\ calibrationOffset' = 0
  /\ stepCount' = 0
  /\ totalDistance' = 0

\* processSensorData that subtracts the distance walked
processed_Backwards(mag, steps) ==
  LET h == IF mag # NoMag THEN updateHeading(mag, calibrationOffset) ELSE heading
      newSteps == steps - stepCount
      distance == newSteps * StepLength
  IN IF steps # NoSteps /\ steps > stepCount
     THEN [heading |-> h, stepCount |-> steps,
           totalDistance |-> totalDistance - distance,
           points |-> addPointFromHeadingAndDistance(points, h, distance)]
     ELSE [heading |-> h, stepCount |-> stepCount,
           totalDistance |-> totalDistance, points |-> points]

\* processSensorData(sensorData), with sensorData.magnetometer = mag (or
\* NoMag) and sensorData.pedometer.steps = steps (or NoSteps): the fields
\* of the processor after the call
processed(mag, steps) ==
  LET h == IF mag # NoMag THEN updateHeading(mag, calibrationOffset) ELSE heading
      newSteps == steps - stepCount
      distance == newSteps * StepLength
  IN IF steps # NoSteps /\ steps > stepCount
     THEN [heading |-> h, stepCount |-> steps,
           totalDistance |-> totalDistance + distance,
           points |-> addPointFromHeadingAndDistance(points, h, distance)]
     ELSE [heading |-> h, stepCount |-> stepCount,
           totalDistance |-> totalDistance, points |-> points]

processSensorData(mag, steps) ==
  /\ heading' = processed(mag, steps).heading
  /\ stepCount' = processed(mag, steps).stepCount
  /\ totalDistance' = processed(mag, steps).totalDistance
  /\ points' = processed(mag, steps).points
  /\ UNCHANGED calibrationOffset

ProcInit ==
  /\ points = <<Origin>>
  /\ heading = 0
  /\ calibrationOffset = 0
  /\ stepCount = 0
  /\ totalDistance = 0
  /\ ret = Ret("constructor", <<>>, <<>>, NoMag, 0)


\* ------------------------------------------------------------------------
\* Inputs
\* ------------------------------------------------------------------------
\* magnetometer samples of the processor driver: the rays of stored headings
\* 0 and 315 (the second one takes the degrees < 0 branch of updateHeading)
ProcMags == { Vec(0, -1), Vec(-1, -1) }
\* reference headings handed to calibrate() by the processor driver
CalHeadings == { 0, 270 }
\* magnetometer samples of the loop-closure driver: stored headings 0 and 180
LoopMags == { Vec(0, -1), Vec(0, 1) }
\* magnetometer samples delivered to the screen
SessionMags == { Vec(0, -1), Vec(1, 0) }

NoAvailability ==
  [accelerometer |-> FALSE, gyroscope |-> FALSE, magnetometer |-> FALSE, pedometer |-> FALSE]
NoCalibration == [status |-> "none", avg |-> 0]
\* the two versions of MappingScreen in MappingScreen.tsx
ScreenVersions == {"first", "second"}

\* the calls of start() of the adapter driver
Calls == 1..MaxStarts
\* the sensors expo-sensors delivers samples of
SensorKinds == {"accelerometer", "magnetometer", "gyroscope"}
\* the sensors a start() waits for
RequiredKinds == {"accelerometer", "magnetometer"}
\* subscriptionsRef.current = {}
NoSubs == [k \in SensorKinds |-> 0]
\* what isAvailableAsync answers on the device
FullDevice == [accelerometer |-> TRUE, magnetometer |-> TRUE, gyroscope |-> TRUE]
Devices ==
  { FullDevice,
    [accelerometer |-> TRUE, magnetometer |-> TRUE, gyroscope |-> FALSE],
    [accelerometer |-> TRUE, magnetometer |-> FALSE, gyroscope |-> TRUE],
    [accelerometer |-> FALSE, magnetometer |-> TRUE, gyroscope |-> TRUE] }

\* ------------------------------------------------------------------------
\* Initial state: the screen is mounted, a project is selected, the
\* processor is constructed
\* ------------------------------------------------------------------------
InitApp ==
  /\ ProcInit
  /\ mappingState = "idle"
  /\ hasFloor = FALSE
  /\ walls = <<>>
  /\ sensorsAvailable = NoAvailability
  /\ magnetometer \in {ZeroVec, NoMag}
  /\ hookSteps = 0
  /\ listeners = {}
  /\ pointsRef = <<>>
  /\ lastStop = "none"
  /\ alert = "none"
  /\ screenVersion \in ScreenVersions
  /\ isCalibrating = FALSE
  /\ calTimer = FALSE
  /\ readings = <<>>
  /\ calMag = NoMag
  /\ calResult = NoCalibration

\* STEP_DETECTION_CONFIG of the hook (iOS and default values); acceleration
\* magnitudes are in 0.1 m/s^2, times in units of 50 ms
THRESHOLD == 12
DEBOUNCE_TIME == 5
WINDOW_SIZE == 5
MAX_RETRIES == 3

\* no initializeSensors call runs, no retry is scheduled, no alert is shown
NoCall == 0 - 1

\* useState(0) of retryAttempts; nothing has been attempted
RetryInit ==
  /\ retryAttempts = 0
  /\ captured = NoCall
  /\ retryTimer = NoCall
  /\ errorAlert = NoCall
  /\ retries = 0
  /\ attempts = 0
  /\ surfaced = FALSE

\* elapsed times are kept up to one unit beyond the debounce time
Elapsed(t) == IF t > DEBOUNCE_TIME THEN DEBOUNCE_TIME + 1 ELSE t

\* stepDetectorRef.current = 0 (so Date.now() - 0 is beyond any debounce
\* time) and accelerationWindowRef.current = []; no sample was given yet
DetInit ==
  /\ accelerationWindow = <<>>
  /\ sinceStep = DEBOUNCE_TIME + 1
  /\ recent = <<>>
  /\ sinceQual = DEBOUNCE_TIME + 1
  /\ qualCount = 0
  /\ spaced = TRUE
  /\ samples = 0
  /\ sinceEmit = DEBOUNCE_TIME + 1
  /\ stepGap = DEBOUNCE_TIME + 1
  /\ constantStream = TRUE

\* no start() has been called: no call is in flight, no timer is scheduled,
\* subscriptionsRef.current = {} and isTracking = false
StartInit ==
  /\ pc = [c \in Calls |-> "none"]
  /\ result = [c \in Calls |-> "none"]
  /\ recv = [c \in Calls |-> {}]
  /\ dataTimer = [c \in Calls |-> FALSE]
  /\ initTimer = [c \in Calls |-> FALSE]
  /\ initTimeoutRef = 0
  /\ registry = {}
  /\ subsRef = NoSubs
  /\ isTracking = FALSE
  /\ stoppedCalls = {}
  /\ RetryInit
  /\ DetInit
  /\ stepMag = NoMag
  /\ detectedIn = [idle |-> 0, mapping |-> 0, paused |-> 0, completed |-> 0]
  /\ appState = "active"
  /\ intervals = {}
  /\ calibrationCountdown = 0

Init ==
  /\ InitApp
  /\ devAvail = FullDevice
  /\ StartInit
  /\ retryVariant = "useSensors"

\* ------------------------------------------------------------------------
\* Driver of the MappingProcessor class: any sequence of its public methods
\* ------------------------------------------------------------------------
PReset ==
  /\ reset
  /\ ret' = Ret("reset", points, <<>>, NoMag, 0)
  /\ UNCHANGED <<appVars, hookVars, screenVars, calVars>>

PProcess ==
  \E mag \in ProcMags \cup {NoMag}, steps \in {NoSteps} \cup (0..MaxProcSteps) :
    /\ processSensorData(mag, steps)
    /\ ret' = Ret("processSensorData", points, <<>>, mag, calibrationOffset)
    /\ UNCHANGED <<appVars, hookVars, screenVars, calVars>>

PCheckLoopClosure ==
  /\ ret' = Ret("checkLoopClosure", points, <<>>, NoMag, checkLoopClosure(points))
  /\ UNCHANGED <<procVars, appVars, hookVars, screenVars, calVars>>

PCloseLoop ==
  /\ points' = closeLoop(points)
  /\ ret' = Ret("closeLoop", points, closeLoopInput(points), NoMag, closeLoop(points))
  /\ UNCHANGED <<heading, calibrationOffset, stepCount, totalDistance>>
  /\ UNCHANGED <<appVars, hookVars, screenVars, calVars>>

PCalibrate ==
  \E h \in CalHeadings :
    /\ calibrationOffset' = calibrate(h)
    /\ ret' = Ret("calibrate", <<>>, <<>>, NoMag, h)
    /\ UNCHANGED <<points, heading, stepCount, totalDistance>>
    /\ UNCHANGED <<appVars, hookVars, screenVars, calVars>>

NextProc == PReset \/ PProcess \/ PCheckLoopClosure \/ PCloseLoop \/ PCalibrate
SpecProc == Init /\ [][NextProc]_vars

\* ------------------------------------------------------------------------
\* Driver for loop closure: walks of up to MaxLoopSteps steps, north and south
\* ------------------------------------------------------------------------
LProcess ==
  \E mag \in LoopMags, k \in 1..2 :
    /\ stepCount + k <= MaxLoopSteps
    /\ processSensorData(mag, stepCount + k)
    /\ ret' = Ret("processSensorData", points, <<>>, mag, calibrationOffset)
    /\ UNCHANGED <<appVars, hookVars, screenVars, calVars>>

LCheckLoopClosure == PCheckLoopClosure

LReset == PReset

NextLoop == LProcess \/ LCheckLoopClosure \/ LReset
SpecLoop == Init /\ [][NextLoop]_vars


\* ------------------------------------------------------------------------
\* App reducer
\* ------------------------------------------------------------------------
\* case 'ADD_WALL': the walls of the floor after the action
addWall(ws, pts) == IF Len(pts) = 0 THEN ws ELSE Append(ws, pts)

\* ------------------------------------------------------------------------
\* useSensors hook
\* ------------------------------------------------------------------------
\* an initializeSensors that does not probe the sensors
RequiredAvailable_NoProbe(avail) == TRUE

\* the availability probe of initializeSensors: the accelerometer and the
\* magnetometer are required
RequiredAvailable(avail) == avail.accelerometer /\ avail.magnetometer

\* the listeners the adapter registers: none when a required sensor is
\* missing, else one for each available kind
Registered(avail) ==
  IF RequiredAvailable(avail) THEN { k \in SensorKinds : avail[k] } ELSE {}

\* the availability probe of initializeSensors (first hook of useSensors.ts,
\* the one whose sensorData starts with a zero magnetometer sample)
InitializeSensorsProbe ==
  /\ sensorsAvailable = NoAvailability
  /\ magnetometer = ZeroVec
  /\ sensorsAvailable' = [accelerometer |-> TRUE, gyroscope |-> TRUE,
                          magnetometer |-> TRUE, pedometer |-> FALSE]
  /\ listeners' = Registered(sensorsAvailable')
  /\ UNCHANGED <<procVars, ret, appVars, magnetometer, hookSteps, startVars, auxVars, screenVars,
               calVars>>

\* the availability probe of checkSensors (second hook of useSensors.ts,
\* the one whose sensorData starts without a magnetometer sample)
CheckSensors ==
  /\ sensorsAvailable = NoAvailability
  /\ magnetometer = NoMag
  /\ \E acc \in BOOLEAN, mag \in BOOLEAN, ios \in BOOLEAN :
       sensorsAvailable' = [accelerometer |-> acc, gyroscope |-> TRUE,
                            magnetometer |-> mag, pedometer |-> (ios \/ acc)]
  /\ listeners' = Registered(sensorsAvailable')
  /\ UNCHANGED <<procVars, ret, appVars, magnetometer, hookSteps, startVars, auxVars, screenVars,
               calVars>>

\* the magnetometer listener: setSensorData({...prev, magnetometer: data})
MagnetometerEvent ==
  /\ "magnetometer" \in listeners
  /\ \E m \in SessionMags : magnetometer' = m
  /\ UNCHANGED <<procVars, ret, appVars, sensorsAvailable, hookSteps, listeners, startVars, auxVars, screenVars,
               calVars>>

\* the accelerometer listener when detectStep accepts the sample:
\* setStepCount(prev => prev + 1)
StepDetected ==
  /\ "accelerometer" \in listeners
  /\ hookSteps < MaxSteps
  /\ hookSteps' = hookSteps + 1
  /\ UNCHANGED <<procVars, ret, appVars, sensorsAvailable, magnetometer, listeners, startVars, auxVars, screenVars,
               calVars>>

\* ------------------------------------------------------------------------
\* MappingScreen
\* ------------------------------------------------------------------------
\* FloorManager creates the first floor (case 'ADD_FLOOR')
AddFloor ==
  /\ ~hasFloor
  /\ hasFloor' = TRUE
  /\ walls' = <<>>
  /\ UNCHANGED <<procVars, ret, mappingState, hookVars, screenVars, calVars>>

\* handleStopMapping accepting any non-empty pointsRef
EnoughPointsForWall_Any(ref) == Len(ref) > 0

\* handleStopMapping: pointsRef.current.length > 2
EnoughPointsForWall(ref) == Len(ref) > MinWallPoints

\* a handleStopMapping without the 'Not Enough Points' branch
stopAlert_Silent(mapped, ref) == IF mapped THEN "Wall Mapped" ELSE "none"

\* the alert handleStopMapping shows: 'Wall Mapped' after ADD_WALL, 'Not
\* Enough Points' when pointsRef.current.length <= 2
stopAlert(mapped, ref) ==
  IF mapped THEN "Wall Mapped"
  ELSE IF Len(ref) <= MinWallPoints THEN "Not Enough Points"
  ELSE "none"

\* handleStopMapping on processor points pts and pointsRef ref: the
\* processor's points and the floor's walls after it
stopOutcome(pts, ref) ==
  IF hasFloor /\ EnoughPointsForWall(ref)
  THEN [points |-> closeLoop(pts), walls |-> addWall(walls, closeLoop(pts)),
        ret |-> Ret("closeLoop", pts, closeLoopInput(pts), NoMag, closeLoop(pts)),
        alert |-> stopAlert(TRUE, ref)]
  ELSE [points |-> pts, walls |-> walls, ret |-> Ret("stop", pts, <<>>, NoMag, 0),
        alert |-> stopAlert(FALSE, ref)]

\* the sensor effect stopping on the track length alone
AutoStop_NoClosure(pts, ref) == Len(ref) > AutoStopPoints

\* the loop-closure check of the sensor effect
AutoStop(pts, ref) == checkLoopClosure(pts) /\ Len(ref) > AutoStopPoints

\* the sensor-data effect while mapping: processSensorData, pointsRef and,
\* on loop closure, handleStopMapping
SensorEffect ==
  /\ mappingState = "mapping"
  /\ LET r == processed(magnetometer, hookSteps)
         stop == stopOutcome(r.points, r.points)
     IN /\ heading' = r.heading
        /\ stepCount' = r.stepCount
        /\ totalDistance' = r.totalDistance
        /\ pointsRef' = r.points
        /\ IF AutoStop(r.points, r.points)
           THEN /\ mappingState' = "completed"
                /\ points' = stop.points
                /\ walls' = stop.walls
                /\ ret' = stop.ret
                /\ lastStop' = "auto"
                /\ alert' = stop.alert
           ELSE /\ points' = r.points
                /\ ret' = Ret("processSensorData", <<>>, <<>>, magnetometer,
                              calibrationOffset)
                /\ UNCHANGED <<mappingState, walls, lastStop, alert>>
  /\ UNCHANGED <<calibrationOffset, hasFloor, hookVars, screenVersion, calVars>>

\* the calibration overlay covers the whole screen, the mapping controls
\* included, while isCalibrating
OverlayShown == isCalibrating

\* handleStartMapping (the Start Mapping button is shown when idle);
\* ok is the result of initializeSensors()
HandleStartMapping ==
  /\ mappingState = "idle"
  /\ ~OverlayShown
  /\ hasFloor
  /\ sensorsAvailable.magnetometer # FALSE
  /\ sensorsAvailable.pedometer # FALSE
  /\ reset
  /\ pointsRef' = <<>>
  /\ ret' = Ret("reset", <<>>, <<>>, NoMag, 0)
  /\ \E ok \in BOOLEAN :
       /\ ok => RequiredAvailable(sensorsAvailable)
       /\ mappingState' = IF ok THEN "mapping" ELSE mappingState
       /\ alert' = IF ok THEN alert ELSE "Sensor Error"
  /\ UNCHANGED <<hasFloor, walls, hookVars, lastStop, screenVersion, calVars>>

\* handlePauseMapping (case 'PAUSE_MAPPING')
HandlePauseMapping ==
  /\ mappingState = "mapping"
  /\ ~OverlayShown
  /\ mappingState' = "paused"
  /\ UNCHANGED <<procVars, ret, hasFloor, walls, hookVars, screenVars, calVars>>

\* a Resume button that is also shown when the session is completed
ResumeShown_Completed == mappingState \in {"paused", "completed"}

\* the Resume button is rendered when mappingState === 'paused'
ResumeShown == mappingState = "paused"

\* handleResumeMapping (case 'START_MAPPING')
HandleResumeMapping ==
  /\ ResumeShown
  /\ ~OverlayShown
  /\ mappingState' = "mapping"
  /\ UNCHANGED <<procVars, ret, hasFloor, walls, hookVars, screenVars, calVars>>

\* handleStopMapping from the Stop button (shown when mapping or paused)
HandleStopMapping ==
  /\ mappingState \in {"mapping", "paused"}
  /\ ~OverlayShown
  /\ mappingState' = "completed"
  /\ points' = stopOutcome(points, pointsRef).points
  /\ walls' = stopOutcome(points, pointsRef).walls
  /\ ret' = stopOutcome(points, pointsRef).ret
  /\ lastStop' = "manual"
  /\ alert' = stopOutcome(points, pointsRef).alert
  /\ UNCHANGED <<heading, calibrationOffset, stepCount, totalDistance>>
  /\ UNCHANGED <<hasFloor, hookVars, pointsRef, screenVersion, calVars>>

\* HomeScreen selects another project, one without a floor (case
\* 'SELECT_PROJECT'), and the mapping screen is shown for it: a new screen
\* instance, its pointsRef empty and no alert on it; the processor is the
\* same object
SelectProject ==
  /\ ~OverlayShown
  /\ mappingState' = "idle"
  /\ hasFloor' = FALSE
  /\ walls' = <<>>
  /\ pointsRef' = <<>>
  /\ lastStop' = "none"
  /\ alert' = "none"
  /\ calResult' = NoCalibration
  /\ UNCHANGED <<procVars, ret, hookVars, screenVersion, isCalibrating, calTimer,
                 readings, calMag>>

\* ------------------------------------------------------------------------
\* Calibration session (handleCalibrate)
\* ------------------------------------------------------------------------
\* readings.sort((a, b) => a - b); the readings of one session are all equal,
\* NaN included, so the order of NaN among numbers does not arise
RECURSIVE SortAsc(_)
SortAsc(rs) ==
  IF Len(rs) <= 1 THEN rs
  ELSE LET m == CHOOSE i \in 1..Len(rs) : \A j \in 1..Len(rs) : rs[i] <= rs[j]
       IN <<rs[m]>> \o SortAsc(SubSeq(rs, 1, m - 1) \o SubSeq(rs, m + 1, Len(rs)))

RECURSIVE Sum(_)
Sum(rs) == IF Len(rs) = 0 THEN 0 ELSE Plus(rs[1], Sum(Tail(rs)))

\* sort, drop the first and the last reading, average the rest (the
\* readings of one session are equal, so the division is exact)
avgHeading(rs) ==
  LET sorted == SortAsc(rs)
      filteredReadings == IF Len(sorted) > 2 THEN SubSeq(sorted, 2, Len(sorted) - 1)
                          ELSE sorted
  IN IF IsNaN(Sum(filteredReadings)) THEN NaN
     ELSE Sum(filteredReadings) \div Len(filteredReadings)

\* the disabled prop of the Calibrate Compass button in the two versions of
\* the screen
CalibrateDisabled ==
  \/ isCalibrating
  \/ screenVersion = "first" /\ mappingState = "mapping"
  \/ ~sensorsAvailable.magnetometer

\* the Calibrate Compass button: starts the countdown, the sampling interval
\* and the 3 s timer; collectReadings closes over the sensorData of this render
handleCalibrate ==
  /\ ~CalibrateDisabled
  /\ isCalibrating' = TRUE
  /\ calTimer' = TRUE
  /\ readings' = <<>>
  /\ calMag' = magnetometer
  /\ calResult' = NoCalibration
  /\ UNCHANGED <<procVars, ret, appVars, hookState, sessionAux, screenVars>>

HandleCalibrate == handleCalibrate /\ UNCHANGED timerVars

\* collectReadings, every 100 ms
CollectReadings ==
  /\ calTimer
  /\ calMag # NoMag
  /\ LET pushed == Append(readings, NormalizedHeading(calMag))
     IN readings' = IF Len(pushed) > MaxReadings THEN Tail(pushed) ELSE pushed
  /\ UNCHANGED <<procVars, ret, appVars, hookVars, screenVars, isCalibrating,
                 calTimer, calMag, calResult>>

\* the timer accepting sessions of 3 samples
EnoughReadings_Three(rs) == Len(rs) >= 3

\* the timer's test readings.length >= 5
EnoughReadings(rs) == Len(rs) >= MinReadings

\* the 3 s timer
calibrationTimeout ==
  /\ calTimer
  /\ calTimer' = FALSE
  /\ isCalibrating' = FALSE
  /\ IF EnoughReadings(readings)
     THEN /\ calibrationOffset' = calibrate(avgHeading(readings))
          /\ calResult' = [status |-> "complete", avg |-> avgHeading(readings)]
          /\ ret' = Ret("calibrate", <<>>, <<>>, NoMag, avgHeading(readings))
     ELSE /\ calResult' = [status |-> "failed", avg |-> 0]
          /\ UNCHANGED <<calibrationOffset, ret>>
  /\ readings' = <<>>
  /\ calMag' = NoMag
  /\ UNCHANGED <<points, heading, stepCount, totalDistance>>
  /\ UNCHANGED <<appVars, hookState, sessionAux, screenVars>>

CalibrationTimer == calibrationTimeout /\ UNCHANGED timerVars

\* a clearTimeout that leaves the timeout scheduled
clearTimeout_Noop(t) == t

\* clearTimeout(timerRef.current); timerRef.current = null
clearTimeout(t) == FALSE

\* cancelCalibration (the Cancel button of the calibration overlay); the
\* readings array and the captured sample are reachable only from the
\* callback of the 3 s timer
cancelCalibration ==
  /\ isCalibrating
  /\ calTimer' = clearTimeout(calTimer)
  /\ isCalibrating' = FALSE
  /\ readings' = IF calTimer' THEN readings ELSE <<>>
  /\ calMag' = IF calTimer' THEN calMag ELSE NoMag
  /\ UNCHANGED <<procVars, ret, appVars, hookState, sessionAux, screenVars,
                 calResult>>

CancelCalibration == cancelCalibration /\ UNCHANGED timerVars

Next ==
  \/ InitializeSensorsProbe \/ CheckSensors \/ MagnetometerEvent \/ StepDetected
  \/ AddFloor \/ SensorEffect
  \/ HandleStartMapping \/ HandlePauseMapping \/ HandleResumeMapping \/ HandleStopMapping
  \/ SelectProject
  \/ HandleCalibrate \/ CollectReadings \/ CalibrationTimer \/ CancelCalibration
Spec == Init /\ [][Next]_vars

\* ------------------------------------------------------------------------
\* Properties of the MappingProcessor
\* ------------------------------------------------------------------------

\* a is a subsequence of b: the elements of a occur in b at strictly
\* increasing positions (greedy matching from position i of a, j of b)
RECURSIVE EmbedsFrom(_, _, _, _)
EmbedsFrom(a, i, b, j) ==
  IF i > Len(a) THEN TRUE
  ELSE IF j > Len(b) THEN FALSE
  ELSE IF a[i] = b[j] THEN EmbedsFrom(a, i + 1, b, j + 1)
  ELSE EmbedsFrom(a, i, b, j + 1)

\* a keeps both ends of b and is a subsequence of b that ends at b's last
\* position
PathOrderPreserved(a, b) ==
  /\ Len(a) >= 2
  /\ a[1] = b[1]
  /\ a[Len(a)] = b[Len(b)]
  /\ EmbedsFrom(SubSeq(a, 1, Len(a) - 1), 1, SubSeq(b, 1, Len(b) - 1), 1)

\* closeLoop() was the last call, on a track of at least 3 points
ClosedATrack == ret.op = "closeLoop" /\ Len(ret.pre) >= MinClosePoints

\* C1: closeLoop() on a track of at least 3 points returns a sequence whose
\* first and last point are equal.
C1_ClosedPath ==
  ClosedATrack => ret.out[1] = ret.out[Len(ret.out)]

\* C7: the sequence the path simplifier returns is a subsequence of its input
\* in path order that starts with the input's first point and ends with the
\* input's last point, also when two input points have equal coordinates.
C7_PathOrder ==
  ClosedATrack => PathOrderPreserved(ret.out, ret.inp)

\* C4: the point sequence is never empty, totalDistance is never negative,
\* and totalDistance decreases only in a reset().
C4_TrackInvariant ==
  /\ [](Len(points) > 0 /\ totalDistance >= 0)
  /\ [][ret'.op # "reset" => totalDistance' >= totalDistance]_vars

\* a track that has walked, was closed, and walked on
C4_Witness ==
  /\ ret.op = "processSensorData"
  /\ totalDistance >= 3 * StepLength
  /\ Len(points) >= 4
  /\ \E i \in 2..Len(points) : points[i] = points[1]

\* the raw heading of a magnetometer sample as the heading estimator is
\* specified: atan2(my, mx) in degrees, normalized to [0, 360)
C9_Raw(mag) == (Atan2Deg(mag.y, mag.x) + 360) % 360

\* C9: the heading stored for a magnetometer sample is
\* (raw + calibrationOffset) mod 360 with no other additive term.
C9_HeadingFormula ==
  (ret.op = "processSensorData" /\ ret.mag # NoMag)
    => heading = (C9_Raw(ret.mag) + ret.out) % 360

\* C10: the stored heading and the stored calibration offset always lie in
\* [0, 360).
C10_AnglesInRange ==
  /\ heading >= 0 /\ heading < 360
  /\ calibrationOffset >= 0 /\ calibrationOffset < 360

\* a calibrated processor has stored the heading of a sample whose
\* atan2 + 90 is negative, and the sum with the offset passed 360
C10_Witness ==
  /\ ret.op = "processSensorData"
  /\ ret.mag = Vec(-1, -1)
  /\ calibrationOffset = 90
  /\ heading = 45

\* C6: checkLoopClosure() returns true exactly when the track has at least 10
\* points and its first and last point are less than 0.5 m apart, and it
\* changes nothing in the processor.
C6_LoopClosure ==
  /\ [](ret.op = "checkLoopClosure" =>
          (ret.out <=> (/\ Len(ret.pre) >= 10
                        /\ Dist2(ret.pre[1], ret.pre[Len(ret.pre)]) < 10 * 10)))
  /\ [][ret'.op = "checkLoopClosure" => UNCHANGED procVars]_vars

\* checkLoopClosure() has returned true
C6_WitnessClosed == ret.op = "checkLoopClosure" /\ ret.out = TRUE

\* ------------------------------------------------------------------------
\* The square walk: one session in which the user walks SideSteps steps
\* along each side of a square, turning right by 90 degrees at each corner
\* ------------------------------------------------------------------------
SquareSteps == 4 * SideSteps

\* the magnetometer sample while walking the step after n steps: the
\* stored headings of the four sides are 0, 90, 180 and 270
SquareMag(n) ==
  CASE (n \div SideSteps) % 4 = 0 -> Vec(0, -1)
    [] (n \div SideSteps) % 4 = 1 -> Vec(1, 0)
    [] (n \div SideSteps) % 4 = 2 -> Vec(0, 1)
    [] OTHER -> Vec(-1, 0)

\* the magnetometer listener while the user faces along the current side
SqMagnetometerEvent ==
  /\ "magnetometer" \in listeners
  /\ hookSteps = stepCount
  /\ magnetometer # SquareMag(hookSteps)
  /\ magnetometer' = SquareMag(hookSteps)
  /\ UNCHANGED <<procVars, ret, appVars, sensorsAvailable, hookSteps, listeners, startVars, auxVars, screenVars,
               calVars>>

\* the accelerometer listener accepting the next step of the walk; the
\* previous step has been integrated
SqStepDetected ==
  /\ "accelerometer" \in listeners
  /\ mappingState = "mapping"
  /\ magnetometer = SquareMag(hookSteps)
  /\ hookSteps = stepCount
  /\ hookSteps < SquareSteps
  /\ hookSteps' = hookSteps + 1
  /\ UNCHANGED <<procVars, ret, appVars, sensorsAvailable, magnetometer, listeners, startVars, auxVars, screenVars,
               calVars>>

NextSquare ==
  \/ InitializeSensorsProbe \/ CheckSensors \/ AddFloor
  \/ SqMagnetometerEvent \/ SqStepDetected \/ SensorEffect
  \/ HandleStartMapping \/ HandlePauseMapping \/ HandleResumeMapping
SpecSquare == Init /\ [][NextSquare]_vars

\* ------------------------------------------------------------------------
\* Properties of the mapping session
\* ------------------------------------------------------------------------

C3_OneStepOnePoint ==
  [][(mappingState = "mapping" /\ stepCount' > stepCount) =>
       /\ stepCount' = stepCount + 1
       /\ totalDistance' = totalDistance + StepLength
       /\ Len(pointsRef') = Len(points) + 1
       /\ pointsRef'[Len(pointsRef')] =
            Pt(points[Len(points)].x + SinTimes(heading', StepLength),
               points[Len(points)].y + CosTimes(heading', StepLength))]_vars

\* C5: in the square walk the last point is within 0.5 m of the origin after
\* 4 * SideSteps steps, integrating that step stops the session by loop
\* closure (completed, a wall added), and no earlier step stops it.
C5_SquareClosesLoop ==
  /\ [](lastStop = "auto" => stepCount = SquareSteps)
  /\ [](stepCount = SquareSteps =>
          Dist2(pointsRef[1], pointsRef[Len(pointsRef)]) < LoopThreshold * LoopThreshold)
  /\ [][(stepCount' = SquareSteps /\ stepCount # SquareSteps) =>
          /\ mappingState' = "completed"
          /\ lastStop' = "auto"
          /\ Len(walls') = Len(walls) + 1]_vars

\* the square was walked and the session stopped by loop closure
C5_Witness ==
  /\ stepCount = SquareSteps
  /\ Len(pointsRef) = SquareSteps + 1
  /\ lastStop = "auto"
  /\ mappingState = "completed"
  /\ Len(walls) = 1

\* C8: after a calibration session completed on samples that all equal one
\* raw heading h, the heading stored for a sample of raw heading h is 0.
C8_CalibratedHeadingIsZero ==
  (/\ calResult.status = "complete"
   /\ ret.op = "processSensorData"
   /\ ret.mag # NoMag
   /\ ret.out = calibrate(calResult.avg)
   /\ NormalizedHeading(ret.mag) = calResult.avg)
    => heading = 0

\* C11: the calibration offset never changes while the mapping state is
\* 'mapping', and no calibration session starts during mapping.
C11_NoCalibrationWhileMapping ==
  /\ [][(mappingState = "mapping" /\ mappingState' = "mapping")
          => calibrationOffset' = calibrationOffset]_vars
  /\ [][mappingState = "mapping" => ~(~isCalibrating /\ isCalibrating')]_vars

\* ------------------------------------------------------------------------
\* Calibration sessions on their own, with magnetometer samples that may be
\* NaN: the screen is idle, only the compass is used
\* ------------------------------------------------------------------------
\* the magnetometer listener delivering a sample with a NaN axis
NaNMagnetometerEvent ==
  /\ "magnetometer" \in listeners
  /\ magnetometer' = NaNVec
  /\ UNCHANGED <<procVars, ret, appVars, sensorsAvailable, hookSteps, listeners, startVars, auxVars, screenVars,
               calVars>>

NextCal ==
  \/ InitializeSensorsProbe \/ CheckSensors
  \/ MagnetometerEvent \/ NaNMagnetometerEvent
  \/ HandleCalibrate \/ CollectReadings \/ CalibrationTimer \/ CancelCalibration
SpecCal == Init /\ [][NextCal]_vars

\* a sample collected by the running session is NaN
NaNCollected == \E i \in 1..Len(readings) : IsNaN(readings[i])

\* C12: a calibration session that collected a NaN sample ends as a failure
\* and leaves the offset as it was; the stored offset is never NaN.
C12_NaNSampleFails ==
  /\ [](~IsNaN(calibrationOffset))
  /\ [][(NaNCollected /\ calResult.status = "none" /\ calResult'.status # "none")
          => (calResult'.status = "failed" /\ calibrationOffset' = calibrationOffset)]_vars

\* C13: a calibration session with fewer than 5 samples when its timer fires
\* reports failure and leaves the calibration offset unchanged.
C13_FewSamplesFail ==
  [][(Len(readings) < 5 /\ calResult.status = "none" /\ calResult'.status # "none")
       => (calResult'.status = "failed" /\ calibrationOffset' = calibrationOffset)]_vars

\* a session failed after an earlier one had stored an offset
C13_Witness ==
  /\ calResult.status = "failed"
  /\ ~isCalibrating
  /\ calibrationOffset = 90

\* C14: cancelling a calibration session changes neither the calibration
\* offset nor the track (points, heading, stepCount, totalDistance), and
\* once the session is cancelled no calibration outcome appears and the
\* offset is not changed by anything but reset() until a new session is
\* started
C14_CancelHasNoEffect ==
  /\ [][(isCalibrating /\ ~isCalibrating' /\ calResult'.status = "none")
          => UNCHANGED procVars]_vars
  /\ [][~isCalibrating
          => (/\ calResult'.status \in {calResult.status, "none"}
              /\ (calibrationOffset' # calibrationOffset => ret'.op = "reset"))]_vars

\* a session was cancelled after an earlier one had set the offset to 90
C14_Witness ==
  /\ ~isCalibrating
  /\ calResult.status = "none"
  /\ calibrationOffset = 90

C16_StopReleasesListeners ==
  [][(mappingState # "completed" /\ mappingState' = "completed")
       => listeners' = {}]_vars

\* C17: stopping a session whose track has 2 or fewer points adds no wall
\* to the floor and shows the 'Not Enough Points' alert
C17_ShortTrackAddsNoWall ==
  [][(mappingState # "completed" /\ mappingState' = "completed" /\ Len(ret'.pre) <= 2)
       => (walls' = walls /\ alert' = "Not Enough Points")]_vars

\* a session with one step on its track was stopped
C17_Witness ==
  /\ mappingState = "completed"
  /\ Len(points) = 2
  /\ stepCount = 1
  /\ alert = "Not Enough Points"
  /\ walls = <<>>

\* C19: when the accelerometer or the magnetometer is unavailable no
\* listener is registered and the mapping state is never 'mapping', and a
\* start attempt ends with the 'Sensor Error' alert and the state 'idle'
C19_UnavailableNeverMaps ==
  /\ [](~(sensorsAvailable.accelerometer /\ sensorsAvailable.magnetometer)
          => (listeners = {} /\ mappingState # "mapping"))
  /\ [][(/\ ~(sensorsAvailable.accelerometer /\ sensorsAvailable.magnetometer)
          /\ ret'.op = "reset" /\ ret.op # "reset")
          => (alert' = "Sensor Error" /\ mappingState' = "idle")]_vars

\* Start Mapping was pressed on a device without accelerometer
C19_Witness ==
  /\ sensorsAvailable.magnetometer
  /\ ~sensorsAvailable.accelerometer
  /\ ret.op = "reset"
  /\ alert = "Sensor Error"
  /\ mappingState = "idle"

\* ------------------------------------------------------------------------
\* The adapter's start() and stop(): useSensors.initializeSensors and
\* stopTracking, one action for each step between two awaits. A listener is
\* the pair of its sensor kind and the call of start() that registered it;
\* the values of the samples are not followed here.
\* ------------------------------------------------------------------------
\* clearTimeout(initTimeoutRef.current) on the timers of the calls
ClearInitTimer(timers, ref) == IF ref = 0 THEN timers ELSE [timers EXCEPT ![ref] = FALSE]

\* cleanupSubscriptions: remove() on every subscription of subscriptionsRef
AfterCleanup(reg, ref) == reg \ { <<k, ref[k]>> : k \in SensorKinds }

KindsOf(reg) == { e[1] : e \in reg }

\* the end of Promise.race for call c: the success path (lines 373-381) or
\* the catch blocks (lines 382-425); timers are the init timers before it.
\* Once the race is settled a later resolve or reject does nothing.
Settle(c, outcome, timers) ==
  IF result[c] # "pending"
  THEN /\ initTimer' = timers
       /\ UNCHANGED <<result, initTimeoutRef, registry, subsRef, isTracking, listeners>>
  ELSE /\ result' = [result EXCEPT ![c] = outcome]
       /\ initTimer' = ClearInitTimer(timers, initTimeoutRef)
       /\ initTimeoutRef' = 0
       /\ IF outcome = "failure"
          THEN /\ registry' = AfterCleanup(registry, subsRef)
               /\ subsRef' = NoSubs
               /\ isTracking' = FALSE
          ELSE /\ UNCHANGED <<registry, subsRef>>
               /\ isTracking' = TRUE
       /\ listeners' = KindsOf(registry')

\* start(): the synchronous part of initializeSensors up to the first await
HStart(c) ==
  /\ pc[c] = "none"
  /\ \A d \in Calls : d < c => pc[d] # "none"
  /\ pc' = [pc EXCEPT ![c] = "setup"]
  /\ result' = [result EXCEPT ![c] = "pending"]
  /\ registry' = IF isTracking THEN AfterCleanup(registry, subsRef) ELSE registry
  /\ subsRef' = IF isTracking THEN NoSubs ELSE subsRef
  /\ isTracking' = FALSE
  /\ initTimer' = [ClearInitTimer(initTimer, initTimeoutRef) EXCEPT ![c] = TRUE]
  /\ initTimeoutRef' = c
  /\ listeners' = KindsOf(registry')
  /\ UNCHANGED <<devAvail, recv, dataTimer, stoppedCalls>>
  /\ UNCHANGED auxVars
  /\ UNCHANGED <<procVars, ret, appVars, sensorsAvailable, magnetometer, hookSteps,
                 screenVars, calVars>>

\* await setupAndroidSensors() returns; false or a denied permission throws
HSetup(c) ==
  /\ pc[c] = "setup"
  /\ \E ok \in BOOLEAN :
       IF ok
       THEN /\ pc' = [pc EXCEPT ![c] = "probe"]
            /\ UNCHANGED <<result, initTimer, initTimeoutRef, registry, subsRef,
                           isTracking, listeners>>
       ELSE /\ pc' = [pc EXCEPT ![c] = "done"]
            /\ Settle(c, "failure", initTimer)
  /\ UNCHANGED <<devAvail, recv, dataTimer, stoppedCalls>>
  /\ UNCHANGED auxVars
  /\ UNCHANGED <<procVars, ret, appVars, sensorsAvailable, magnetometer, hookSteps,
                 screenVars, calVars>>

\* a start() that waits for the samples without a data timeout
DataTimeoutSet_Never == FALSE

\* dataTimeout = setTimeout(reject, DATA_TIMEOUT)
DataTimeoutSet == TRUE

\* the isAvailableAsync probes return: setSensorsAvailable, then either the
\* throw on a missing sensor or the listeners and the data timeout
HProbe(c) ==
  /\ pc[c] = "probe"
  /\ sensorsAvailable' = [accelerometer |-> devAvail.accelerometer,
                          gyroscope |-> devAvail.gyroscope,
                          magnetometer |-> devAvail.magnetometer,
                          pedometer |-> FALSE]
  /\ IF RequiredAvailable(devAvail)
     THEN /\ pc' = [pc EXCEPT ![c] = "data"]
          /\ registry' = registry \cup { <<k, c>> : k \in { j \in SensorKinds : devAvail[j] } }
          /\ subsRef' = [k \in SensorKinds |-> IF devAvail[k] THEN c ELSE subsRef[k]]
          /\ dataTimer' = [dataTimer EXCEPT ![c] = DataTimeoutSet]
          /\ listeners' = KindsOf(registry')
          /\ UNCHANGED <<result, initTimer, initTimeoutRef, isTracking>>
     ELSE /\ pc' = [pc EXCEPT ![c] = "done"]
          /\ Settle(c, "failure", initTimer)
          /\ UNCHANGED dataTimer
  /\ UNCHANGED <<devAvail, recv, stoppedCalls>>
  /\ UNCHANGED auxVars
  /\ UNCHANGED <<procVars, ret, appVars, magnetometer, hookSteps, screenVars, calVars>>

\* the accelerometer or magnetometer listener of call c gets its first
\* sample: receivedData, checkDataReceived
HSample(c, k) ==
  /\ <<k, c>> \in registry
  /\ k \in RequiredKinds \ recv[c]
  /\ recv' = [recv EXCEPT ![c] = recv[c] \cup {k}]
  /\ IF recv'[c] = RequiredKinds
     THEN /\ dataTimer' = [dataTimer EXCEPT ![c] = FALSE]
          /\ IF pc[c] = "data"
             THEN /\ pc' = [pc EXCEPT ![c] = "done"]
                  /\ Settle(c, "success", initTimer)
             ELSE UNCHANGED <<pc, result, initTimer, initTimeoutRef, registry, subsRef,
                              isTracking, listeners>>
     ELSE UNCHANGED <<pc, dataTimer, result, initTimer, initTimeoutRef, registry,
                      subsRef, isTracking, listeners>>
  /\ UNCHANGED <<devAvail, stoppedCalls>>
  /\ UNCHANGED auxVars
  /\ UNCHANGED <<procVars, ret, appVars, sensorsAvailable, magnetometer, hookSteps,
                 screenVars, calVars>>

\* the data timeout of call c fires: reject('No sensor data received')
HDataTimeout(c) ==
  /\ dataTimer[c]
  /\ dataTimer' = [dataTimer EXCEPT ![c] = FALSE]
  /\ IF pc[c] = "data"
     THEN /\ pc' = [pc EXCEPT ![c] = "done"]
          /\ Settle(c, "failure", initTimer)
     ELSE UNCHANGED <<pc, result, initTimer, initTimeoutRef, registry, subsRef,
                      isTracking, listeners>>
  /\ UNCHANGED <<devAvail, recv, stoppedCalls>>
  /\ UNCHANGED auxVars
  /\ UNCHANGED <<procVars, ret, appVars, sensorsAvailable, magnetometer, hookSteps,
                 screenVars, calVars>>

\* the initialization timeout of call c fires: reject('Sensor initialization
\* timeout'); the steps of initializeSensorsPromise go on
HInitTimeout(c) ==
  /\ initTimer[c]
  /\ Settle(c, "failure", [initTimer EXCEPT ![c] = FALSE])
  /\ UNCHANGED <<devAvail, pc, recv, dataTimer, stoppedCalls>>
  /\ UNCHANGED auxVars
  /\ UNCHANGED <<procVars, ret, appVars, sensorsAvailable, magnetometer, hookSteps,
                 screenVars, calVars>>

\* stop(): stopTracking, cleanupSubscriptions
HStop ==
  /\ registry' = AfterCleanup(registry, subsRef)
  /\ subsRef' = NoSubs
  /\ isTracking' = FALSE
  /\ listeners' = KindsOf(registry')
  /\ stoppedCalls' = { c \in Calls : pc[c] # "none" }
  /\ UNCHANGED <<devAvail, pc, result, recv, dataTimer, initTimer, initTimeoutRef>>
  /\ UNCHANGED auxVars
  /\ UNCHANGED <<procVars, ret, appVars, sensorsAvailable, magnetometer, hookSteps,
                 screenVars, calVars>>

InitHook ==
  /\ InitApp
  /\ magnetometer = ZeroVec
  /\ screenVersion = "first"
  /\ devAvail \in Devices
  /\ StartInit
  /\ retryVariant = "useSensors"

NextHook ==
  \/ \E c \in Calls : HStart(c)
  \/ \E c \in Calls : HSetup(c)
  \/ \E c \in Calls : HProbe(c)
  \/ \E c \in Calls, k \in RequiredKinds : HSample(c, k)
  \/ \E c \in Calls : HDataTimeout(c)
  \/ \E c \in Calls : HInitTimeout(c)
  \/ HStop
SpecHook == InitHook /\ [][NextHook]_vars

\* the native calls return and the scheduled timers fire
SpecHookFair ==
  /\ SpecHook
  /\ \A c \in Calls :
       /\ WF_vars(HSetup(c))
       /\ WF_vars(HProbe(c))
       /\ WF_vars(HDataTimeout(c))
       /\ WF_vars(HInitTimeout(c))

\* C18: when stop() returns no listener registered by an earlier start()
\* is registered, whatever calls of start() and stop() came before
C18_StopReleasesEveryListener ==
  [][stoppedCalls' # stoppedCalls => registry' = {}]_vars

\* C20: every call of start() resolves to success or to failure, and a
\* data timeout that fires on a pending call resolves it to failure
C20_StartResolves ==
  /\ \A c \in Calls : (result[c] = "pending") ~> (result[c] \in {"success", "failure"})
  /\ [][\A c \in Calls :
          (dataTimer[c] /\ ~dataTimer'[c] /\ recv'[c] # RequiredKinds /\ result[c] = "pending")
            => result'[c] = "failure"]_vars

\* a call whose listeners were registered ended without both samples
C20_Witness ==
  \E c \in Calls :
    /\ RequiredAvailable(devAvail)
    /\ sensorsAvailable.accelerometer
    /\ pc[c] = "done"
    /\ recv[c] # RequiredKinds
    /\ result[c] = "failure"
    /\ ~dataTimer[c]

\* ------------------------------------------------------------------------
\* Retry handling of initializeSensors: the catch block of the first
\* useSensors (a 'Sensor Error' alert with a Try Again button) and of the
\* variants kept in useAppState.ts and config/env.ts (a retry timer, then an
\* alert with a Retry button).  A call works on the retryAttempts of the
\* render that created its callback, and the initializeSensors its catch
\* block calls is that same callback.
\* ------------------------------------------------------------------------
MaxAttempts == 5

RetryVariants == {"useSensors", "useAppState"}

restOfRetry == <<procVars, ret, appVars, sensorsAvailable, magnetometer,
                 hookSteps, listeners, startVars, detVars, stepMag,
                 detectedIn, appState, timerVars, screenVars, calVars,
                 retryVariant>>

\* start() / handleStartMapping calls the callback of the latest render
RStart ==
  /\ captured = NoCall /\ retryTimer = NoCall /\ errorAlert = NoCall
  /\ attempts < MaxAttempts
  /\ captured' = retryAttempts
  /\ attempts' = attempts + 1
  /\ retries' = 0
  /\ surfaced' = FALSE
  /\ UNCHANGED <<retryAttempts, retryTimer, errorAlert, restOfRetry>>

\* the try block ends: the useAppState variant resets the counter
RSucceed ==
  /\ captured # NoCall
  /\ captured' = NoCall
  /\ retryAttempts' = IF retryVariant = "useAppState" THEN 0 ELSE retryAttempts
  /\ retries' = 0
  /\ UNCHANGED <<retryTimer, errorAlert, attempts, surfaced, restOfRetry>>

\* the catch block
RFail ==
  /\ captured # NoCall
  /\ captured' = NoCall
  /\ IF retryVariant = "useSensors"
       THEN /\ errorAlert' = captured
            /\ UNCHANGED <<retryAttempts, retryTimer, surfaced>>
       ELSE IF captured < MAX_RETRIES
         THEN /\ retryAttempts' = retryAttempts + 1
              /\ retryTimer' = captured
              /\ UNCHANGED <<errorAlert, surfaced>>
         ELSE /\ errorAlert' = captured
              /\ surfaced' = TRUE
              /\ UNCHANGED <<retryAttempts, retryTimer>>
  /\ UNCHANGED <<retries, attempts, restOfRetry>>

\* setTimeout(() => initializeSensors(), 1000 * (retryAttempts + 1)) fires
RTimer ==
  /\ retryTimer # NoCall
  /\ attempts < MaxAttempts
  /\ captured' = retryTimer
  /\ retryTimer' = NoCall
  /\ retries' = retries + 1
  /\ attempts' = attempts + 1
  /\ UNCHANGED <<retryAttempts, errorAlert, surfaced, restOfRetry>>

\* the alert's Try Again (useSensors) or Retry (useAppState) button
RTryAgain ==
  /\ errorAlert # NoCall
  /\ attempts < MaxAttempts
  /\ errorAlert' = NoCall
  /\ IF retryVariant = "useSensors"
       THEN IF errorAlert < MAX_RETRIES
         THEN /\ retryAttempts' = retryAttempts + 1
              /\ captured' = errorAlert
              /\ retries' = retries + 1
              /\ attempts' = attempts + 1
              /\ UNCHANGED surfaced
         ELSE /\ surfaced' = TRUE
              /\ UNCHANGED <<retryAttempts, captured, retries, attempts>>
       ELSE /\ retryAttempts' = 0
            /\ captured' = errorAlert
            /\ retries' = 0
            /\ attempts' = attempts + 1
            /\ surfaced' = FALSE
  /\ UNCHANGED <<retryTimer, restOfRetry>>

\* the alert's Cancel / OK button
RCancel ==
  /\ errorAlert # NoCall
  /\ errorAlert' = NoCall
  /\ UNCHANGED <<retryAttempts, captured, retryTimer, retries, attempts,
                 surfaced, restOfRetry>>

InitRetry ==
  /\ InitApp
  /\ devAvail = FullDevice
  /\ StartInit
  /\ retryVariant \in RetryVariants

NextRetry == RStart \/ RSucceed \/ RFail \/ RTimer \/ RTryAgain \/ RCancel

SpecRetry == InitRetry /\ [][NextRetry]_vars

\* C21: the retries made after failures never exceed the cap MAX_RETRIES
\* (3): once three retries were made, no further initialization attempt is
\* made by a retry trigger.
C21_RetriesCapped == retries <= MAX_RETRIES

\* C22: in every availability value the hook reports, the pedometer flag
\* equals the accelerometer flag.
C22_PedometerIsAccelerometer ==
  sensorsAvailable.pedometer = sensorsAvailable.accelerometer

\* ------------------------------------------------------------------------
\* The step detector: detectStep, called by the accelerometer listener with
\* every sample.  A sample is its magnitude sqrt(x^2 + y^2 + z^2) and the
\* time elapsed since the sample before it.
\* ------------------------------------------------------------------------
MaxSamples == 7

\* rest (9.8 m/s^2) and two larger magnitudes
Magnitudes == {98, 120, 140}

\* the update interval of 100 ms and a late delivery
Gaps == {2, 3}

RECURSIVE reduceSum(_)
reduceSum(w) == IF w = <<>> THEN 0 ELSE w[1] + reduceSum(Tail(w))

debounced_Inclusive(dt) == dt <= DEBOUNCE_TIME

\* now - stepDetectorRef.current < DEBOUNCE_TIME
debounced(dt) == dt < DEBOUNCE_TIME

\* push(acceleration), then shift() when longer than WINDOW_SIZE
pushSample(w, a) ==
  LET p == Append(w, a) IN IF Len(p) > WINDOW_SIZE THEN Tail(p) ELSE p

Deviates_AnyLength(w, a) ==
  Abs(WINDOW_SIZE * a - reduceSum(w)) > WINDOW_SIZE * THRESHOLD

\* the window is full and |acceleration - avg| > THRESHOLD, where avg is the
\* window's sum / WINDOW_SIZE (both sides multiplied by WINDOW_SIZE)
Deviates(w, a) ==
  /\ Len(w) = WINDOW_SIZE
  /\ Abs(WINDOW_SIZE * a - reduceSum(w)) > WINDOW_SIZE * THRESHOLD

\* the last WINDOW_SIZE samples of the stream, the new one included
LastSamples(r, a) ==
  LET p == Append(r, a)
  IN IF Len(p) > WINDOW_SIZE THEN SubSeq(p, Len(p) - WINDOW_SIZE + 1, Len(p))
     ELSE p

\* the new sample deviates from the mean of the last WINDOW_SIZE samples of
\* the stream by more than THRESHOLD
StreamDeviation(r, a) ==
  /\ Len(LastSamples(r, a)) = WINDOW_SIZE
  /\ Abs(WINDOW_SIZE * a - reduceSum(LastSamples(r, a)))
       > WINDOW_SIZE * THRESHOLD

restOfDet == <<procVars, ret, appVars, sensorsAvailable, magnetometer,
               listeners, startVars, retryVars, stepMag, detectedIn,
               appState, timerVars, screenVars, calVars>>

\* the accelerometer listener: detectStep(data)
DetectStep ==
  /\ samples < MaxSamples
  /\ \E a \in Magnitudes, gap \in Gaps :
       LET dt == Elapsed(sinceStep + gap)
           w == pushSample(accelerationWindow, a)
           step == ~debounced(dt) /\ Deviates(w, a)
           q == StreamDeviation(recent, a)
       IN /\ accelerationWindow' = IF debounced(dt) THEN accelerationWindow
                                   ELSE w
          /\ sinceStep' = IF step THEN 0 ELSE dt
          /\ hookSteps' = IF step THEN hookSteps + 1 ELSE hookSteps
          /\ samples' = samples + 1
          /\ recent' = LastSamples(recent, a)
          /\ constantStream' = (constantStream /\
                                (recent = <<>> \/ a = recent[Len(recent)]))
          /\ qualCount' = IF q THEN qualCount + 1 ELSE qualCount
          /\ sinceQual' = IF q THEN 0 ELSE Elapsed(sinceQual + gap)
          /\ spaced' = (spaced /\ (q /\ qualCount > 0
                                     => sinceQual + gap >= DEBOUNCE_TIME))
          /\ sinceEmit' = IF step THEN 0 ELSE Elapsed(sinceEmit + gap)
          /\ stepGap' = IF step THEN Elapsed(sinceEmit + gap) ELSE stepGap
  /\ UNCHANGED restOfDet

NextStep == DetectStep

SpecStep == Init /\ [][NextStep]_vars

\* C23: for a sample stream in which every deviation above THRESHOLD of a
\* sample from the mean of the last WINDOW_SIZE samples comes at least
\* DEBOUNCE_TIME after the previous such deviation, the number of step
\* events emitted equals the number of such deviations.
C23_StepsEqualDeviations == spaced => hookSteps = qualCount

\* the sample given to detectStep by the step just taken
NewSample == recent'[Len(recent')]

\* C24: a step event is emitted only for a sample that deviates from the
\* mean of the detector's full window by more than THRESHOLD; so none is
\* emitted before the window is full, and none for a stream of constant
\* magnitude.
C24_NoDeviationNoStep ==
  /\ [](constantStream => hookSteps = 0)
  /\ [][hookSteps' # hookSteps =>
          /\ Len(accelerationWindow') = WINDOW_SIZE
          /\ samples' >= WINDOW_SIZE
          /\ Abs(WINDOW_SIZE * NewSample - reduceSum(accelerationWindow'))
               > WINDOW_SIZE * THRESHOLD]_vars

\* a varying stream longer than the window went by without a step event
C24_Witness ==
  /\ samples > WINDOW_SIZE
  /\ ~constantStream
  /\ Len(accelerationWindow) = WINDOW_SIZE
  /\ hookSteps = 0

\* C29: every sample given to the detector is pushed into the window, the
\* oldest value leaving when the window is full, also when the sample
\* arrives within the debounce time of an accepted step; the window never
\* holds more than WINDOW_SIZE values.
C29_EverySamplePushed ==
  /\ [](Len(accelerationWindow) <= WINDOW_SIZE)
  /\ [][samples' > samples =>
          accelerationWindow' = LastSamples(accelerationWindow, NewSample)]_vars

\* C30: two consecutive step events are at least DEBOUNCE_TIME apart, and a
\* sample that arrives exactly DEBOUNCE_TIME after the last step event and
\* deviates from the mean of the window by more than THRESHOLD is accepted.
C30_DebounceSpacing ==
  /\ [](hookSteps >= 2 => stepGap >= DEBOUNCE_TIME)
  /\ [][~ /\ samples' > samples
          /\ sinceEmit' = DEBOUNCE_TIME
          /\ Deviates(pushSample(accelerationWindow, NewSample), NewSample)]_vars

\* a second step event was emitted exactly DEBOUNCE_TIME after the first
C30_Witness == hookSteps >= 2 /\ stepGap = DEBOUNCE_TIME

\* C25: after reset(), whatever preceded it, the track is the single point
\* {0,0}, heading, stepCount and totalDistance are 0; a second reset() right
\* after it changes nothing.
C25_ResetState ==
  /\ [](ret.op = "reset" =>
          /\ points = <<Pt(0, 0)>>
          /\ heading = 0
          /\ stepCount = 0
          /\ totalDistance = 0)
  /\ [][ret.op = "reset" /\ ret'.op = "reset" => procVars' = procVars]_vars

\* reset() was called on a track of several points
C25_Witness == ret.op = "reset" /\ Len(ret.pre) > 1

\* ------------------------------------------------------------------------
\* Driver for the path simplifier: simplifyPoints applied to a track of
\* MinSimplifyPoints to MaxPathLen points near a straight line
\* ------------------------------------------------------------------------
MaxPathLen == 4

\* points on, 0.05 m beside and 0.15 m beside the x axis, 1 m apart
PathPoints == { Pt(px, py) : px \in {0, 20, 40}, py \in {0, 1, 3} }

Paths == UNION { [1..n -> PathPoints] : n \in MinSimplifyPoints..MaxPathLen }

\* simplifyPoints() with this.points = path
SSimplify ==
  /\ ret.op = "constructor"
  /\ \E path \in Paths :
       /\ points' = simplifyPoints(path)
       /\ ret' = Ret("simplifyPoints", path, <<>>, NoMag, 0)
  /\ UNCHANGED <<heading, calibrationOffset, stepCount, totalDistance,
                 appVars, hookVars, screenVars, calVars>>

NextSimplify == SSimplify

SpecSimplify == Init /\ [][NextSimplify]_vars

\* the cross product of pts[i] - first and last - first: the distance of
\* pts[i] from the line through the endpoints, times the endpoints' distance
CrossToEnds(pts, i) ==
  (pts[i].x - pts[1].x) * (pts[Len(pts)].y - pts[1].y)
    - (pts[i].y - pts[1].y) * (pts[Len(pts)].x - pts[1].x)

\* the path is open and every interior point is within the tolerance of the
\* line through its endpoints
NearStraight(pts) ==
  /\ pts[1] # pts[Len(pts)]
  /\ \A i \in 2..(Len(pts) - 1) :
       CrossToEnds(pts, i) * CrossToEnds(pts, i)
         <= Tolerance * Tolerance * Dist2(pts[1], pts[Len(pts)])

\* C26: for an open path of at least 3 points whose interior points all lie
\* within the tolerance (0.1 m) of the line through its endpoints,
\* simplifyPoints returns exactly the first and the last point.
C26_StraightPathToEndpoints ==
  ret.op = "simplifyPoints" /\ Len(ret.pre) >= 3 /\ NearStraight(ret.pre)
    => points = <<ret.pre[1], ret.pre[Len(ret.pre)]>>

\* a path with an interior point beside the line, within the tolerance,
\* was simplified
C26_Witness ==
  /\ ret.op = "simplifyPoints"
  /\ Len(ret.pre) >= 3
  /\ NearStraight(ret.pre)
  /\ \E i \in 2..(Len(ret.pre) - 1) : CrossToEnds(ret.pre, i) # 0

\* ------------------------------------------------------------------------
\* Driver for the processor with snapshots whose magnetometer has a NaN axis
\* ------------------------------------------------------------------------
\* magnetometer samples with NaN in the x or in the y axis
NaNMags == { Vec(NaN, 0), Vec(0, NaN) }

HasNaN(mag) == mag # NoMag /\ (IsNaN(mag.x) \/ IsNaN(mag.y))

NProcess ==
  \E mag \in ProcMags \cup NaNMags, steps \in {NoSteps} \cup (0..MaxProcSteps) :
    /\ processSensorData(mag, steps)
    /\ ret' = Ret("processSensorData", points, <<>>, mag, steps)
    /\ UNCHANGED <<appVars, hookVars, screenVars, calVars>>

NextNaN == NProcess \/ PReset

SpecNaN == Init /\ [][NextNaN]_vars

\* C27: a snapshot with NaN in an axis of the magnetometer is discarded:
\* processing it leaves points, heading, stepCount and totalDistance as they
\* were, and the track never holds a point with a NaN coordinate.
C27_NaNSnapshotDiscarded ==
  /\ [][ret'.op = "processSensorData" /\ HasNaN(ret'.mag) =>
          UNCHANGED <<points, heading, stepCount, totalDistance>>]_vars
  /\ [](\A i \in 1..Len(points) : ~IsNaN(points[i].x) /\ ~IsNaN(points[i].y))

\* ------------------------------------------------------------------------
\* Driver for the order of sensor events and the screen's sensor effect:
\* a mapping session in which steps are detected and magnetometer samples
\* arrive, and the effect integrates the snapshot of the latest render
\* ------------------------------------------------------------------------
\* the accelerometer listener when detectStep accepts the sample; the
\* magnetometer sample of sensorData at that moment is remembered
OStepDetected ==
  /\ "accelerometer" \in listeners
  /\ mappingState = "mapping"
  /\ hookSteps < MaxSteps
  /\ hookSteps' = hookSteps + 1
  /\ stepMag' = magnetometer
  /\ UNCHANGED <<procVars, ret, appVars, sensorsAvailable, magnetometer,
                 listeners, startVars, retryVars, detVars, detectedIn,
                 appState, timerVars, screenVars, calVars>>

NextOrder ==
  \/ CheckSensors
  \/ AddFloor
  \/ HandleStartMapping
  \/ OStepDetected
  \/ MagnetometerEvent
  \/ SensorEffect

SpecOrder == Init /\ [][NextOrder]_vars

\* the heading estimate for the sample that was current at the detection
HeadingAtStep ==
  IF stepMag = NoMag THEN heading ELSE updateHeading(stepMag, calibrationOffset)

\* C28: the point of a step is displaced along the heading estimate that
\* was current when the step was detected; a magnetometer sample arriving
\* between the detection and the integration does not change where the
\* point is placed.
C28_StepUsesHeadingAtDetection ==
  [][stepCount' > stepCount =>
       LET lastPoint == points[Len(points)]
           distance == (stepCount' - stepCount) * StepLength
       IN pointsRef'[Len(pointsRef')] =
            Pt(lastPoint.x + SinTimes(HeadingAtStep, distance),
               lastPoint.y + CosTimes(HeadingAtStep, distance))]_vars

\* C31: at any time at most one listener per sensor kind is registered by
\* the hook, whatever the interleaving of start() calls.
C31_OneListenerPerKind ==
  \A k \in SensorKinds : Cardinality({ r \in registry : r[1] = k }) <= 1

\* C32: each sample collected by a calibration session is computed from the
\* magnetometer reading that is current at the sampling instant.
C32_SampleFromCurrentReading ==
  [][readings' # readings /\ readings' # <<>> =>
       readings'[Len(readings')] = NormalizedHeading(magnetometer)]_vars

\* ------------------------------------------------------------------------
\* Driver for sessions with steps detected in any mapping state: the step
\* detector runs from the moment the listeners are registered, whether or
\* not a session is mapping
\* ------------------------------------------------------------------------
\* the accelerometer listener when detectStep accepts the sample; the
\* mapping state at that moment is counted
DStepDetected ==
  /\ "accelerometer" \in listeners
  /\ hookSteps < MaxSteps
  /\ hookSteps' = hookSteps + 1
  /\ detectedIn' = [detectedIn EXCEPT ![mappingState] = @ + 1]
  /\ UNCHANGED <<procVars, ret, appVars, sensorsAvailable, magnetometer,
                 listeners, startVars, retryVars, detVars, stepMag, appState,
                 timerVars, screenVars, calVars>>

NextSession ==
  \/ CheckSensors
  \/ AddFloor
  \/ HandleStartMapping
  \/ HandlePauseMapping
  \/ HandleResumeMapping
  \/ HandleStopMapping
  \/ DStepDetected
  \/ SensorEffect

SpecSession == Init /\ [][NextSession]_vars

\* C33: steps counted before a session was started are not integrated:
\* as long as no step was detected in a session, the track of a started
\* session is the single origin point and totalDistance is 0.
C33_EarlierStepsNotIntegrated ==
  (detectedIn.mapping = 0 /\ detectedIn.paused = 0
     /\ mappingState = "mapping")
    => (points = <<Pt(0, 0)>> /\ totalDistance = 0)

\* C34: steps detected while the session is paused are not added to the
\* track: with no step detected outside a session, the distance integrated
\* is that of the steps detected while mapping.
C34_PausedStepsNotIntegrated ==
  (detectedIn.idle = 0 /\ detectedIn.completed = 0)
    => totalDistance <= detectedIn.mapping * StepLength

\* C35: a calibration offset set by a calibration that completed while the
\* mapping state was idle is still the offset in effect once the next
\* session has started: starting a session does not discard it.
C35_StartKeepsCalibration ==
  [][mappingState = "idle" /\ mappingState' = "mapping"
       => calibrationOffset' = calibrationOffset]_vars

\* C37: when start() has resolved to failure no listener of that call is
\* registered, at that moment or later, also when the initialization
\* timeout fired while the asynchronous steps were still in progress.
C37_FailedStartHasNoListener ==
  \A c \in Calls :
    result[c] = "failure" => { r \in registry : r[2] = c } = {}

\* ------------------------------------------------------------------------
\* The timers of a calibration session: the 3 s timeout kept in timerRef
\* (calTimer) and the two intervals kept in locals of handleCalibrate
\* ------------------------------------------------------------------------
IntervalKinds == {"countdown", "reading"}

Owners == {"current", "ended"}

CurrentIntervals == { <<k, "current">> : k \in IntervalKinds }

\* the intervals of a session whose handles nothing refers to any more
Orphaned(ivs) == { <<i[1], "ended">> : i \in ivs }

\* handleCalibrate: setCalibrationCountdown(3) and the two setInterval calls
THandleCalibrate ==
  /\ handleCalibrate
  /\ calibrationCountdown' = 3
  /\ intervals' = Orphaned(intervals) \cup CurrentIntervals

\* the 3 s timeout: clearInterval(countdownInterval),
\* clearInterval(readingInterval) of its own session
TCalibrationTimer ==
  /\ calibrationTimeout
  /\ intervals' = intervals \ CurrentIntervals
  /\ UNCHANGED calibrationCountdown

\* cancelCalibration clears the timeout only: the intervals stay scheduled
Cancelled(ivs) == ivs

TCancelCalibration ==
  /\ cancelCalibration
  /\ intervals' = Cancelled(intervals)
  /\ UNCHANGED calibrationCountdown

\* a tick of a countdown interval, every second: the first screen clears the
\* interval when the countdown is at 1 or below, the second only counts down
CountdownTick(o) ==
  /\ <<"countdown", o>> \in intervals
  /\ IF screenVersion = "first" /\ calibrationCountdown <= 1
     THEN /\ intervals' = intervals \ {<<"countdown", o>>}
          /\ calibrationCountdown' = 0
     ELSE /\ calibrationCountdown' =
               IF calibrationCountdown > 1 THEN calibrationCountdown - 1 ELSE 0
          /\ UNCHANGED intervals
  /\ UNCHANGED <<procVars, ret, appVars, hookState, sessionAux, screenVars, calVars>>

NextTimers ==
  \/ InitializeSensorsProbe
  \/ CheckSensors
  \/ MagnetometerEvent
  \/ THandleCalibrate
  \/ CollectReadings
  \/ TCalibrationTimer
  \/ TCancelCalibration
  \/ \E o \in Owners : CountdownTick(o)

SpecTimers == Init /\ [][NextTimers]_vars

\* C38: after a calibration session has ended, by completion, by failure
\* or by cancellation, none of its timers remains scheduled.
C38_NoTimerAfterSession ==
  ~isCalibrating => (~calTimer /\ intervals = {})

\* ------------------------------------------------------------------------
\* A session across the app going to the background and coming back: the
\* AppState listener of the hook and the one of the screen
\* ------------------------------------------------------------------------
restOfStart == <<devAvail, pc, result, recv, dataTimer, initTimer, initTimeoutRef,
                 registry, subsRef, stoppedCalls>>

\* handleStartMapping with what the initializeSensors it awaits does to the
\* hook: setIsTracking(true) and the listeners on success,
\* cleanupSubscriptions in the catch block on failure; the button can be
\* pressed while the app is in the foreground
AStartMapping ==
  /\ appState = "active"
  /\ mappingState = "idle"
  /\ ~OverlayShown
  /\ hasFloor
  /\ sensorsAvailable.magnetometer # FALSE
  /\ sensorsAvailable.pedometer # FALSE
  /\ reset
  /\ pointsRef' = <<>>
  /\ ret' = Ret("reset", <<>>, <<>>, NoMag, 0)
  /\ \E ok \in BOOLEAN :
       /\ ok => RequiredAvailable(sensorsAvailable)
       /\ mappingState' = IF ok THEN "mapping" ELSE mappingState
       /\ alert' = IF ok THEN alert ELSE "Sensor Error"
       /\ isTracking' = ok
       /\ listeners' = IF ok THEN Registered(sensorsAvailable) ELSE {}
       /\ magnetometer' = IF ok THEN magnetometer ELSE ZeroVec
  /\ UNCHANGED <<hasFloor, walls, sensorsAvailable, hookSteps, restOfStart, auxVars,
                 lastStop, screenVersion, calVars>>

\* the screen's onBackground, with the mappingState and sensorTracking of
\* the render that created it
PausedOnBackground(state, tracking) ==
  IF state = "mapping" /\ ~tracking THEN "paused" ELSE state

\* AppState changes to 'background': the hook runs cleanupSubscriptions
\* (every listener removed, sensorData zeroed, setIsTracking(false)) and the
\* screen runs onBackground
AppBackground ==
  /\ appState = "active"
  /\ appState' = "background"
  /\ listeners' = {}
  /\ magnetometer' = ZeroVec
  /\ isTracking' = FALSE
  /\ mappingState' = PausedOnBackground(mappingState, isTracking)
  /\ UNCHANGED <<procVars, ret, hasFloor, walls, sensorsAvailable, hookSteps, restOfStart,
                 retryVars, detVars, stepMag, detectedIn, timerVars, screenVars,
                 calVars>>

\* AppState changes to 'active': the hook calls initializeSensors() when
\* isTracking; the screen's onForeground is empty.  ok is the result of
\* initializeSensors().
AppActive ==
  /\ appState = "background"
  /\ appState' = "active"
  /\ IF isTracking
     THEN \E ok \in BOOLEAN :
            /\ ok => RequiredAvailable(sensorsAvailable)
            /\ isTracking' = ok
            /\ listeners' = IF ok THEN Registered(sensorsAvailable) ELSE {}
     ELSE UNCHANGED <<isTracking, listeners>>
  /\ UNCHANGED <<procVars, ret, appVars, sensorsAvailable, magnetometer, hookSteps,
                 restOfStart, retryVars, detVars, stepMag, detectedIn, timerVars,
                 screenVars, calVars>>

NextAppState ==
  \/ InitializeSensorsProbe
  \/ CheckSensors
  \/ MagnetometerEvent
  \/ StepDetected
  \/ AddFloor
  \/ AStartMapping
  \/ SensorEffect
  \/ AppBackground
  \/ AppActive

SpecAppState == Init /\ [][NextAppState]_vars

====
